---- MODULE Spec2Model ----
(***************************************************************************)
(* Passcode / session authentication and request authorization of the      *)
(* kanban board: src/lib/auth.ts, middleware.ts and the API route          *)
(* handlers.  Every request is a process; each awaited store call is one   *)
(* atomic step, and requests interleave freely between store calls.        *)
(*                                                                         *)
(* Strings are sequences of UTF-16 code units (charCodeAt values).         *)
(***************************************************************************)
EXTENDS Integers, Sequences, FiniteSets, TLC

(***************************************************************************)
(* Bounds of the model.                                                    *)
(***************************************************************************)
MaxPasscodes == 3     \* passcode rows ever inserted
MaxSessions == 2      \* session rows ever inserted
MaxTicks == 1         \* advances of the wall clock
MaxEpics == 1         \* epic rows ever inserted
MaxRequests == 4      \* requests ever sent

Procs == {"c1", "c2"} \* clients; each has one request in flight at most

(***************************************************************************)
(* String helpers (JavaScript String methods used by the code).            *)
(***************************************************************************)
RECURSIVE Reverse(_)
Reverse(s) == IF s = <<>> THEN <<>> ELSE Append(Reverse(Tail(s)), Head(s))

StartsWith(s, prefix) ==
    /\ Len(s) >= Len(prefix)
    /\ SubSeq(s, 1, Len(prefix)) = prefix

Slice(s, n) == IF n >= Len(s) THEN <<>> ELSE SubSeq(s, n + 1, Len(s))

PadStart(s, n, ch) == [i \in 1..(n - Len(s)) |-> ch] \o s

IsDigits(s) == s # <<>> /\ \A i \in 1..Len(s) : s[i] \in 48..57   \* /^\d+$/

\* "kanban_", "_", "-", "Bearer ", "Admin", "Guest"
StrKanban == <<107, 97, 110, 98, 97, 110, 95>>
StrUnderscore == <<95>>
StrMinus == <<45>>
StrBearer == <<66, 101, 97, 114, 101, 114, 32>>
StrAdmin == <<65, 100, 109, 105, 110>>
StrGuest == <<71, 117, 101, 115, 116>>

(***************************************************************************)
(* 32-bit integers.  A 32-bit value is kept as its two unsigned 16-bit     *)
(* halves <<hi, lo>>, so that no intermediate result leaves the range of   *)
(* the model checker's integers.  The value is negative iff hi >= 2^15.    *)
(***************************************************************************)
Half == 65536

\* ((h << 5) - h) + c, then h & h: 31 * h + c wrapped to 32 bits
Step32(h, c) ==
    LET lo == h[2] * 31 + c
        hi == h[1] * 31 + (lo \div Half)
    IN  <<hi % Half, lo % Half>>

IsNeg32(h) == h[1] >= 32768

\* |h| as an unsigned pair (Math.abs; also the digits String(h) prints)
Abs32(h) ==
    IF ~IsNeg32(h) THEN h
    ELSE IF h[2] = 0 THEN <<(Half - h[1]) % Half, 0>>
         ELSE <<Half - 1 - h[1], Half - h[2]>>

IsZero32(u) == u[1] = 0 /\ u[2] = 0

\* quotient and remainder of the unsigned pair u by the small base b
DivSmall(u, b) ==
    LET t == (u[1] % b) * Half + u[2]
    IN  [q |-> <<u[1] \div b, t \div b>>, r |-> t % b]

\* faulty variant: upper-case digits 'A'..'F'
DigitChar_upper(d) == IF d < 10 THEN 48 + d ELSE 55 + d

DigitChar(d) == IF d < 10 THEN 48 + d ELSE 87 + d      \* '0'..'9', 'a'..'f'

\* Number.prototype.toString(radix) of a non-negative 32-bit magnitude
RECURSIVE DigitsOf(_, _)
DigitsOf(u, b) ==
    LET d == DivSmall(u, b)
    IN  IF IsZero32(d.q) THEN <<DigitChar(d.r)>>
        ELSE Append(DigitsOf(d.q, b), DigitChar(d.r))

\* String(h) of the signed 32-bit value h
ToDecimal(h) == (IF IsNeg32(h) THEN StrMinus ELSE <<>>) \o DigitsOf(Abs32(h), 10)

RECURSIVE HashLoop(_, _)
HashLoop(h, s) == IF s = <<>> THEN h ELSE HashLoop(Step32(h, Head(s)), Tail(s))

hashCode(code) ==
    LET hash == HashLoop(<<0, 0>>, code)
        salted == StrKanban \o ToDecimal(hash) \o StrUnderscore \o Reverse(code)
        finalHash == HashLoop(<<0, 0>>, salted)
    IN  PadStart(DigitsOf(Abs32(finalHash), 16), 8, 48)

(***************************************************************************)
(* Configuration and request inputs.                                       *)
(***************************************************************************)
\* the clock counts seconds; SESSION_DURATION_MS is 30 days
SESSION_DURATION == 30 * 24 * 60 * 60

\* the clock advances by the session duration, or by a second more
TickSteps == {SESSION_DURATION, SESSION_DURATION + 1}

StrT == <<84>>                      \* "T", the configured static API token
StrX == <<88>>                      \* "X", a token that is not configured

\* process.env.API_AUTH_TOKEN: unset (or empty), or "T"
TokenConfigs == {<<>>, StrT}

Code000000 == <<48, 48, 48, 48, 48, 48>>
Code123456 == <<49, 50, 51, 52, 53, 54>>
Code12345 == <<49, 50, 51, 52, 53>>            \* five digits
Code12a456 == <<49, 50, 97, 52, 53, 54>>       \* six characters, not all digits

\* the body's code; <<>> stands for a missing (or empty) code
Codes == {Code000000, Code123456, Code12345, Code12a456, <<>>}

\* the body's name of a passcode to create; <<>> stands for a missing name
Names == {StrGuest, <<>>}

\* Authorization and x-api-token header values; <<>> is an absent header
HeaderValues == {<<>>, StrT, StrX, StrBearer \o StrT, StrBearer \o StrX, StrBearer}
AllHeaders == [auth : HeaderValues, xtok : HeaderValues]

\* the headers the clients of the model send
HeaderCases ==
    { [auth |-> <<>>, xtok |-> <<>>],
      [auth |-> StrBearer \o StrT, xtok |-> <<>>],
      [auth |-> StrBearer \o StrX, xtok |-> StrX] }

NoHeaders == [auth |-> <<>>, xtok |-> <<>>]

NoToken == 0                        \* no kanban_session cookie

(***************************************************************************)
(* Routes: the pathname the middleware sees, per handler.                  *)
(***************************************************************************)
Routes == {"login", "session", "logout", "adminList", "adminCreate", "adminDelete",
           "epicsGet", "epicsPost"}

PathOf(route) ==
    CASE route = "login" -> "/api/auth/login"
      [] route = "session" -> "/api/auth/session"
      [] route = "logout" -> "/api/auth/logout"
      [] route \in {"adminList", "adminCreate"} -> "/api/admin/passcodes"
      [] route = "adminDelete" -> "/api/admin/passcodes/[id]"
      [] route \in {"epicsGet", "epicsPost"} -> "/api/epics"

\* the paths the middleware lets through without authentication
ExemptPaths == {"/api/auth/login", "/api/auth/setup", "/api/auth/status"}

VARIABLES
    apiToken,     \* process.env.API_AUTH_TOKEN
    now,          \* the wall clock, in seconds
    ticks,        \* how often the clock has advanced
    requests,     \* how many requests have been sent
    passcodes,    \* table passcodes: rows [id, code, name, isAdmin, lastUsedAt]
    sessions,     \* table sessions: rows [token, passcodeId, expiresAt]
    epics,        \* table epics: its number of rows
    nextId,       \* the next gen_random_uuid() of a passcode row
    nextToken,    \* the next generateToken()
    cookie,       \* each client's kanban_session cookie
    pc,           \* where each client's request stands
    req,          \* the request in flight: route, headers, body, path id
    loc,          \* the handler's local variables
    resp          \* the response on its way to each client

vars == <<apiToken, now, ticks, requests, passcodes, sessions, epics, nextId, nextToken,
          cookie, pc, req, loc, resp>>

store == <<passcodes, sessions, epics, nextId, nextToken>>

Never == 0 - 1                      \* lastUsedAt IS NULL

(***************************************************************************)
(* Responses (NextResponse.json).  keys names the fields the body has.     *)
(***************************************************************************)
Json(status, keys, error, success, isAdmin) ==
    [status |-> status, keys |-> keys, error |-> error,
     success |-> success, isAdmin |-> isAdmin, authenticated |-> FALSE, name |-> <<>>]

ErrorJson(status, msg) == Json(status, {"error"}, msg, FALSE, FALSE)
SuccessJson == Json(200, {"success"}, "", TRUE, FALSE)
LoginJson(isAdmin) == Json(200, {"success", "isAdmin"}, "", TRUE, isAdmin)
SetupJson == Json(200, {"success", "isAdmin", "message"}, "", TRUE, TRUE)
RowsJson(status) == Json(status, {"rows"}, "", FALSE, FALSE)
NoResp == Json(0, {}, "", FALSE, FALSE)

\* the bodies of the session-status route
NeedsSetupJson == Json(200, {"authenticated", "needsSetup"}, "", FALSE, FALSE)
AnonymousJson == Json(200, {"authenticated"}, "", FALSE, FALSE)
SessionJson(session) ==
    [Json(200, {"authenticated", "isAdmin", "name"}, "", FALSE, session.isAdmin)
        EXCEPT !.authenticated = session.authenticated, !.name = session.name]

\* the body of the logout route
LogoutJson == Json(200, {"success"}, "", TRUE, FALSE)

TokenError == ErrorJson(401, "Unauthorized - Invalid or missing API token")
RequestError == ErrorJson(401, "Unauthorized - Please provide a valid API token or login")

(***************************************************************************)
(* The session query and the request authorizer.                           *)
(***************************************************************************)
\* faulty variant of the query: expires_at >= now
SessionJoin_inclusive(tok) ==
    { r \in sessions \X passcodes :
        /\ r[1].passcodeId = r[2].id
        /\ r[1].token = tok
        /\ r[1].expiresAt >= now }

\* sessions INNER JOIN passcodes WHERE token = tok AND expires_at > now
SessionJoin(tok) ==
    { r \in sessions \X passcodes :
        /\ r[1].passcodeId = r[2].id
        /\ r[1].token = tok
        /\ r[1].expiresAt > now }

\* getSession(): the values it can return; {} stands for null
getSession(tok) ==
    IF tok = NoToken THEN {}
    ELSE { [authenticated |-> TRUE, isAdmin |-> r[2].isAdmin, name |-> r[2].name] :
             r \in SessionJoin(tok) }

\* faulty variant: any Authorization header that starts with 'Bearer ' passes
validateApiToken_prefix(h) ==
    IF apiToken = <<>> THEN [valid |-> TRUE, error |-> NoResp]
    ELSE IF StartsWith(h.auth, StrBearer) THEN [valid |-> TRUE, error |-> NoResp]
    ELSE IF h.xtok = apiToken THEN [valid |-> TRUE, error |-> NoResp]
    ELSE [valid |-> FALSE, error |-> TokenError]

\* faulty variant: an unset API_AUTH_TOKEN is compared like any other token
validateApiToken_closed(h) ==
    IF StartsWith(h.auth, StrBearer) /\ Slice(h.auth, 7) = apiToken /\ apiToken # <<>>
    THEN [valid |-> TRUE, error |-> NoResp]
    ELSE IF h.xtok = apiToken /\ apiToken # <<>> THEN [valid |-> TRUE, error |-> NoResp]
    ELSE [valid |-> FALSE, error |-> TokenError]

validateApiToken(h) ==
    IF apiToken = <<>> THEN [valid |-> TRUE, error |-> NoResp]
    ELSE IF StartsWith(h.auth, StrBearer) /\ Slice(h.auth, 7) = apiToken
         THEN [valid |-> TRUE, error |-> NoResp]
    ELSE IF h.xtok = apiToken THEN [valid |-> TRUE, error |-> NoResp]
    ELSE [valid |-> FALSE, error |-> TokenError]

\* String.prototype.split(sep) for a one-character separator
RECURSIVE Split(_, _)
Split(s, sep) ==
    IF \A i \in 1..Len(s) : s[i] # sep THEN <<s>>
    ELSE LET i == CHOOSE k \in 1..Len(s) : s[k] = sep /\ \A j \in 1..(k - 1) : s[j] # sep
         IN  <<SubSeq(s, 1, i - 1)>> \o Split(SubSeq(s, i + 1, Len(s)), sep)

\* verifyApiToken(): API_TOKEN holds the value of API_AUTH_TOKEN
verifyApiToken(h) ==
    IF apiToken = <<>> THEN TRUE
    ELSE IF h.auth = <<>> THEN FALSE
    ELSE LET parts == Split(h.auth, 32)
             type == parts[1]
             token == IF Len(parts) >= 2 THEN parts[2] ELSE <<>>
         IN  IF type # <<66, 101, 97, 114, 101, 114>> \/ token = <<>> THEN FALSE
             ELSE token = apiToken

\* consulted: whether the call went on to getSession()
validateRequest(h, tok) ==
    IF validateApiToken(h).valid
    THEN [valid |-> TRUE, consulted |-> FALSE, error |-> NoResp]
    ELSE IF \E s \in getSession(tok) : s.authenticated
         THEN [valid |-> TRUE, consulted |-> TRUE, error |-> NoResp]
    ELSE [valid |-> FALSE, consulted |-> TRUE, error |-> RequestError]

\* faulty variant: the 401 of validateRequest is not returned
middleware_open(route, h, tok) ==
    IF PathOf(route) \in ExemptPaths
    THEN [next |-> TRUE, gate |-> "exempt", consulted |-> FALSE, error |-> NoResp]
    ELSE LET auth == validateRequest(h, tok)
         IN  [next |-> TRUE,
              gate |-> IF ~auth.valid THEN "denied"
                       ELSE IF auth.consulted THEN "session" ELSE "token",
              consulted |-> auth.consulted, error |-> NoResp]

\* middleware(): next, or the 401 of validateRequest
middleware(route, h, tok) ==
    IF PathOf(route) \in ExemptPaths
    THEN [next |-> TRUE, gate |-> "exempt", consulted |-> FALSE, error |-> NoResp]
    ELSE LET auth == validateRequest(h, tok)
         IN  IF ~auth.valid
             THEN [next |-> FALSE, gate |-> "denied", consulted |-> auth.consulted,
                   error |-> auth.error]
             ELSE [next |-> TRUE,
                   gate |-> IF auth.consulted THEN "session" ELSE "token",
                   consulted |-> auth.consulted, error |-> NoResp]

(***************************************************************************)
(* Store statements.                                                       *)
(***************************************************************************)
\* faulty variant: the WHERE clause is missing
SelectAnyCode(hashedCode) == passcodes

\* faulty variant: the select finds nothing
SelectNoCode(hashedCode) == {}

\* SELECT ... FROM passcodes WHERE code = hashedCode
SelectByCode(hashedCode) == { r \in passcodes : r.code = hashedCode }
\* SELECT ... FROM passcodes WHERE id = id
SelectById(id) == { r \in passcodes : r.id = id }
\* SELECT ... FROM passcodes WHERE is_admin = true
SelectAdmins == { r \in passcodes : r.isAdmin }

PasscodeRow(id, hashedCode, name, isAdmin) ==
    [id |-> id, code |-> hashedCode, name |-> name, isAdmin |-> isAdmin,
     lastUsedAt |-> Never]

\* faulty variant: sessions last seven days
SessionRow_week(token, passcodeId, t) ==
    [token |-> token, passcodeId |-> passcodeId, expiresAt |-> t + 7 * 24 * 60 * 60]

SessionRow(token, passcodeId, t) ==
    [token |-> token, passcodeId |-> passcodeId, expiresAt |-> t + SESSION_DURATION]

\* faulty variant: a login ends the earlier sessions of the passcode
SessionsAfterLogin_single(token, passcodeId, t) ==
    { s \in sessions : s.passcodeId # passcodeId } \cup {SessionRow(token, passcodeId, t)}

\* INSERT INTO sessions (passcode_id, token, expires_at)
SessionsAfterLogin(token, passcodeId, t) ==
    sessions \cup {SessionRow(token, passcodeId, t)}

\* faulty variant: the WHERE clause of the update is missing
TouchPasscode_all(id, t) == { [r EXCEPT !.lastUsedAt = t] : r \in passcodes }

\* UPDATE passcodes SET last_used_at = t WHERE id = id
TouchPasscode(id, t) ==
    { IF r.id = id THEN [r EXCEPT !.lastUsedAt = t] ELSE r : r \in passcodes }

\* faulty variant: the delete does not cascade to the sessions
SessionsKept(id) == sessions

\* DELETE FROM passcodes WHERE id = id, and ON DELETE cascade of sessions
PasscodesAfterDelete(id) == { r \in passcodes : r.id # id }
SessionsAfterDelete(id) == { s \in sessions : s.passcodeId # id }

\* faulty variant: only the length is checked
Malformed_length(code) == Len(code) # 6

\* code.length !== 6 || !/^\d+$/.test(code)
Malformed(code) == Len(code) # 6 \/ ~IsDigits(code)

(***************************************************************************)
(* Requests.                                                               *)
(***************************************************************************)
NoReq == [route |-> "none", headers |-> NoHeaders, code |-> <<>>, name |-> <<>>,
          isAdmin |-> FALSE, id |-> 0]

\* gate: how the middleware let the request through; consulted: whether it
\* called getSession(); setup: the login route took the first-run branch;
\* token: the cookie value logout() read;
\* session, passcode, admins, target: the handler's variables session,
\* passcode, admins.length and passcodeToDelete;
\* login, create: what login() and createPasscode() returned;
\* touched: the handler has read or written passcode or epic data
NoLoc == [gate |-> "none", consulted |-> FALSE, setup |-> FALSE, token |-> NoToken,
          session |-> {},
          passcode |-> {}, admins |-> 0, target |-> {}, login |-> "none", create |-> "none",
          touched |-> FALSE]

\* the requests a client can send, as the middleware sees them: the body
\* and the path id are drawn where the handler reads them
Requests ==
    { [NoReq EXCEPT !.route = "login"] }
    \cup { [NoReq EXCEPT !.route = rt, !.headers = h] :
             rt \in Routes \ {"login"}, h \in HeaderCases }

\* the requests of a browser to the login and passcode routes: no API headers
BrowserRequests ==
    { [NoReq EXCEPT !.route = rt] : rt \in {"login", "adminList", "adminCreate", "adminDelete"} }

\* the JSON bodies of POST /api/admin/passcodes
CreateBodies == [code : Codes, name : Names, isAdmin : BOOLEAN]

Entry(route) ==
    CASE route = "login" -> "login_route"
      [] route = "session" -> "session_has"
      [] route = "logout" -> "logout"
      [] route \in {"adminList", "adminCreate", "adminDelete"} -> "admin_session"
      [] route \in {"epicsGet", "epicsPost"} -> "epics_auth"


Init ==
    /\ apiToken \in TokenConfigs
    /\ now = 0
    /\ ticks = 0
    /\ requests = 0
    /\ passcodes = {}
    /\ sessions = {}
    /\ epics = 0
    /\ nextId = 1
    /\ nextToken = 1
    /\ cookie = [p \in Procs |-> NoToken]
    /\ pc = [p \in Procs |-> "idle"]
    /\ req = [p \in Procs |-> NoReq]
    /\ loc = [p \in Procs |-> NoLoc]
    /\ resp = [p \in Procs |-> NoResp]

\* no response is on its way.  Deliver changes only the client's own request
\* state, which no other step reads, so it is taken before anything else.
Quiet == \A q \in Procs : pc[q] # "respond"

\* the client's request stands at label and may take its next step
At(p, label) == Quiet /\ pc[p] = label

\* the handler goes on to its next store call with locals l
Goto(p, label, l) ==
    /\ pc' = [pc EXCEPT ![p] = label]
    /\ loc' = [loc EXCEPT ![p] = l]
    /\ UNCHANGED resp

\* the handler returns the response body with locals l
Respond(p, body, l) ==
    /\ pc' = [pc EXCEPT ![p] = "respond"]
    /\ resp' = [resp EXCEPT ![p] = body]
    /\ loc' = [loc EXCEPT ![p] = l]

\* the response reaches the client; the request is over
Deliver(p) ==
    /\ pc[p] = "respond"
    /\ pc' = [pc EXCEPT ![p] = "idle"]
    /\ req' = [req EXCEPT ![p] = NoReq]
    /\ loc' = [loc EXCEPT ![p] = NoLoc]
    /\ resp' = [resp EXCEPT ![p] = NoResp]
    /\ UNCHANGED <<apiToken, now, ticks, requests, store, cookie>>

Tick ==
    /\ Quiet
    /\ ticks < MaxTicks
    /\ \E d \in TickSteps : now' = now + d
    /\ ticks' = ticks + 1
    /\ UNCHANGED <<apiToken, requests, store, cookie, pc, req, loc, resp>>

\* a request arrives and passes through the middleware
Request(p, sent) ==
    /\ At(p, "idle")
    /\ requests < MaxRequests
    /\ requests' = requests + 1
    /\ \E r \in sent :
         LET mw == middleware(r.route, r.headers, cookie[p])
             l == [NoLoc EXCEPT !.gate = mw.gate, !.consulted = mw.consulted]
         IN  /\ req' = [req EXCEPT ![p] = r]
             /\ loc' = [loc EXCEPT ![p] = l]
             /\ IF mw.next
                THEN pc' = [pc EXCEPT ![p] = Entry(r.route)] /\ UNCHANGED resp
                ELSE /\ pc' = [pc EXCEPT ![p] = "respond"]
                     /\ resp' = [resp EXCEPT ![p] = mw.error]
    /\ UNCHANGED <<apiToken, now, ticks, store, cookie>>

(***************************************************************************)
(* POST /api/auth/login, with createPasscode() and login().                *)
(***************************************************************************)
\* faulty variant: the login route creates the first passcode without isAdmin
CreateArgs_guest(p) ==
    [code |-> req[p].code,
     name |-> IF req[p].route = "login" THEN StrAdmin ELSE req[p].name,
     isAdmin |-> IF req[p].route = "login" THEN FALSE ELSE req[p].isAdmin]

\* the arguments of the createPasscode() call the request makes
CreateArgs(p) ==
    IF req[p].route = "login"
    THEN [code |-> req[p].code, name |-> StrAdmin, isAdmin |-> TRUE]
    ELSE [code |-> req[p].code, name |-> req[p].name, isAdmin |-> req[p].isAdmin]

\* the body check and hasAnyPasscodes()
LoginRoute(p) ==
    /\ At(p, "login_route")
    /\ \E code \in Codes :
         LET hasPasscodes == passcodes # {}
             l == [loc[p] EXCEPT !.setup = TRUE]
         IN  /\ req' = [req EXCEPT ![p].code = code]
             /\ IF code = <<>>
                THEN Respond(p, ErrorJson(400, "Passcode is required"), loc[p])
                ELSE IF ~hasPasscodes
                THEN IF Malformed(code)
                     THEN Respond(p, ErrorJson(400, "Passcode must be exactly 6 digits"), l)
                     ELSE Goto(p, "create_select", l)
                ELSE Goto(p, "login_select", loc[p])
    /\ UNCHANGED <<apiToken, now, ticks, requests, store, cookie>>

\* createPasscode(): the lookup of an existing row with the same hash
createPasscode_select(p) ==
    /\ At(p, "create_select")
    /\ LET existing == SelectByCode(hashCode(CreateArgs(p).code))
           l == [loc[p] EXCEPT !.touched = TRUE]
       IN  IF existing # {}
           THEN IF req[p].route = "login"
                THEN Goto(p, "login_select", [l EXCEPT !.create = "exists"])
                ELSE Respond(p, ErrorJson(400, "This passcode already exists"),
                             [l EXCEPT !.create = "exists"])
           ELSE Goto(p, "create_insert", l)
    /\ UNCHANGED <<apiToken, now, ticks, requests, req, store, cookie>>

\* createPasscode(): the insert
createPasscode_insert(p) ==
    /\ At(p, "create_insert")
    /\ nextId <= MaxPasscodes
    /\ LET a == CreateArgs(p)
       IN  passcodes' = passcodes \cup {PasscodeRow(nextId, hashCode(a.code), a.name, a.isAdmin)}
    /\ nextId' = nextId + 1
    /\ IF req[p].route = "login"
       THEN Goto(p, "login_select", [loc[p] EXCEPT !.create = "success"])
       ELSE Respond(p, SuccessJson, [loc[p] EXCEPT !.create = "success"])
    /\ UNCHANGED <<apiToken, now, ticks, requests, req, sessions, epics, nextToken, cookie>>

\* the route's answer once login() has returned or thrown
LoginAnswer(p, result, isAdmin) ==
    IF result = "threw" THEN ErrorJson(500, "Login failed")
    ELSE IF loc[p].setup THEN SetupJson
    ELSE IF result = "invalid" THEN ErrorJson(401, "Invalid passcode")
    ELSE LoginJson(isAdmin)

\* login(): the lookup of the passcode by hash
login_select(p) ==
    /\ At(p, "login_select")
    /\ LET rows == SelectByCode(hashCode(req[p].code))
       IN  IF rows = {}
           THEN Respond(p, LoginAnswer(p, "invalid", FALSE),
                        [loc[p] EXCEPT !.login = "invalid"])
           ELSE \E passcode \in rows :
                    Goto(p, "login_update", [loc[p] EXCEPT !.passcode = {passcode}])
    /\ UNCHANGED <<apiToken, now, ticks, requests, req, store, cookie>>

\* login(): the lastUsedAt update
login_update(p) ==
    /\ At(p, "login_update")
    /\ \E passcode \in loc[p].passcode : passcodes' = TouchPasscode(passcode.id, now)
    /\ Goto(p, "login_insert", loc[p])
    /\ UNCHANGED <<apiToken, now, ticks, requests, req, sessions, epics, nextId, nextToken, cookie>>

\* login(): the lastUsedAt update is rejected by the store; the error leaves
\* login() and is caught by the route
login_update_throws(p) ==
    /\ At(p, "login_update")
    /\ Respond(p, LoginAnswer(p, "threw", FALSE), [loc[p] EXCEPT !.login = "threw"])
    /\ UNCHANGED <<apiToken, now, ticks, requests, req, store, cookie>>

\* login(): the session insert, the cookie and the return
login_insert(p) ==
    /\ At(p, "login_insert")
    /\ \E passcode \in loc[p].passcode :
         IF SelectById(passcode.id) = {}
         THEN \* sessions_passcode_id_passcodes_id_fk is violated: the insert throws
              /\ Respond(p, LoginAnswer(p, "threw", FALSE), [loc[p] EXCEPT !.login = "threw"])
              /\ UNCHANGED <<sessions, nextToken, cookie>>
         ELSE /\ nextToken <= MaxSessions
              /\ sessions' = SessionsAfterLogin(nextToken, passcode.id, now)
              /\ nextToken' = nextToken + 1
              /\ cookie' = [cookie EXCEPT ![p] = nextToken]
              /\ Respond(p, LoginAnswer(p, "success", passcode.isAdmin),
                         [loc[p] EXCEPT !.login = "success"])
    /\ UNCHANGED <<apiToken, now, ticks, requests, req, passcodes, epics, nextId>>

(***************************************************************************)
(* GET /api/auth/session and POST /api/auth/logout.                        *)
(***************************************************************************)
\* faulty variant: the route does not look for passcodes first
session_has_skip(p) ==
    /\ At(p, "session_has")
    /\ Goto(p, "session_get", loc[p])
    /\ UNCHANGED <<apiToken, now, ticks, requests, req, store, cookie>>

\* hasAnyPasscodes()
session_has(p) ==
    /\ At(p, "session_has")
    /\ LET hasPasscodes == passcodes # {}
       IN  IF ~hasPasscodes
           THEN Respond(p, NeedsSetupJson, loc[p])
           ELSE Goto(p, "session_get", loc[p])
    /\ UNCHANGED <<apiToken, now, ticks, requests, req, store, cookie>>

\* getSession() and the answer
session_get(p) ==
    /\ At(p, "session_get")
    /\ LET found == getSession(cookie[p])
           l == [loc[p] EXCEPT !.session = found]
       IN  IF found = {}
           THEN Respond(p, AnonymousJson, l)
           ELSE \E session \in found : Respond(p, SessionJson(session), l)
    /\ UNCHANGED <<apiToken, now, ticks, requests, req, store, cookie>>

\* faulty variant: the session row is left in the table
SessionsAfterLogout_kept(tok) == sessions

\* faulty variant: logout ends every session of the passcode
SessionsAfterLogout_passcode(tok) ==
    { s \in sessions : \A t \in sessions : t.token = tok => s.passcodeId # t.passcodeId }

\* DELETE FROM sessions WHERE token = tok; without a cookie nothing is deleted
SessionsAfterLogout(tok) ==
    IF tok = NoToken THEN sessions ELSE { s \in sessions : s.token # tok }

\* logout(), and the route's answer
logout(p) ==
    /\ At(p, "logout")
    /\ sessions' = SessionsAfterLogout(cookie[p])
    /\ cookie' = [cookie EXCEPT ![p] = NoToken]
    /\ Respond(p, LogoutJson, [loc[p] EXCEPT !.token = cookie[p]])
    /\ UNCHANGED <<apiToken, now, ticks, requests, req, passcodes, epics, nextId, nextToken>>

(***************************************************************************)
(* /api/admin/passcodes: GET, POST and DELETE [id].                        *)
(***************************************************************************)
\* faulty variant: the check of session.isAdmin is missing
IsAdminSession_any(session) == \E s \in session : s.authenticated

\* !(!session?.authenticated || !session.isAdmin)
IsAdminSession(session) == \E s \in session : s.authenticated /\ s.isAdmin

\* the [id] of a DELETE: the uuid of a row that has been inserted (a client
\* learns ids from the list), or a uuid that names no row
UnknownId == 0
PathIds == {UnknownId} \cup 1..(nextId - 1)

\* getSession() and the admin check, then the body checks of POST
AdminSession(p) ==
    /\ At(p, "admin_session")
    /\ LET session == getSession(cookie[p])
           l == [loc[p] EXCEPT !.session = session]
       IN  IF ~IsAdminSession(session)
           THEN Respond(p, ErrorJson(401, "Unauthorized"), l) /\ UNCHANGED req
           ELSE IF req[p].route = "adminList"
                THEN Goto(p, "list_select", l) /\ UNCHANGED req
           ELSE IF req[p].route = "adminDelete"
                THEN \E id \in PathIds :
                        /\ req' = [req EXCEPT ![p].id = id]
                        /\ Goto(p, "delete_admins", l)
           ELSE \E body \in CreateBodies :
                   /\ req' = [req EXCEPT ![p].code = body.code, ![p].name = body.name,
                                         ![p].isAdmin = body.isAdmin]
                   /\ IF body.code = <<>> \/ body.name = <<>>
                      THEN Respond(p, ErrorJson(400, "Code and name are required"), l)
                      ELSE IF Malformed(body.code)
                      THEN Respond(p, ErrorJson(400, "Passcode must be exactly 6 digits"),
                                   [l EXCEPT !.create = "malformed"])
                      ELSE Goto(p, "create_select", l)
    /\ UNCHANGED <<apiToken, now, ticks, requests, store, cookie>>

listPasscodes(p) ==
    /\ At(p, "list_select")
    /\ Respond(p, RowsJson(200), [loc[p] EXCEPT !.touched = TRUE])
    /\ UNCHANGED <<apiToken, now, ticks, requests, req, store, cookie>>

\* faulty variant: the guard does not look at the row to delete
IsLastAdmin_count(target, admins) == admins <= 1

\* faulty variant: admins.length < 1
IsLastAdmin_lenient(target, admins) ==
    (\E passcodeToDelete \in target : passcodeToDelete.isAdmin) /\ admins < 1

\* passcodeToDelete?.isAdmin && admins.length <= 1
IsLastAdmin(target, admins) ==
    (\E passcodeToDelete \in target : passcodeToDelete.isAdmin) /\ admins <= 1

\* deletePasscode(): the count of admins
deletePasscode_admins(p) ==
    /\ At(p, "delete_admins")
    /\ Goto(p, "delete_target",
            [loc[p] EXCEPT !.admins = Cardinality(SelectAdmins), !.touched = TRUE])
    /\ UNCHANGED <<apiToken, now, ticks, requests, req, store, cookie>>

\* deletePasscode(): the lookup of the row to delete, and the last-admin guard
deletePasscode_target(p) ==
    /\ At(p, "delete_target")
    /\ LET target == SelectById(req[p].id)
           l == [loc[p] EXCEPT !.target = target]
       IN  IF IsLastAdmin(target, loc[p].admins)
           THEN Respond(p, ErrorJson(400, "Cannot delete the last admin passcode"), l)
           ELSE Goto(p, "delete_delete", l)
    /\ UNCHANGED <<apiToken, now, ticks, requests, req, store, cookie>>

\* deletePasscode(): the delete
deletePasscode_delete(p) ==
    /\ At(p, "delete_delete")
    /\ passcodes' = PasscodesAfterDelete(req[p].id)
    /\ sessions' = SessionsAfterDelete(req[p].id)
    /\ Respond(p, SuccessJson, loc[p])
    /\ UNCHANGED <<apiToken, now, ticks, requests, req, epics, nextId, nextToken, cookie>>

(***************************************************************************)
(* /api/epics: GET and POST.                                               *)
(***************************************************************************)
EpicsAuth(p) ==
    /\ At(p, "epics_auth")
    /\ LET auth == validateRequest(req[p].headers, cookie[p])
       IN  IF ~auth.valid THEN Respond(p, auth.error, loc[p]) /\ UNCHANGED req
           ELSE IF req[p].route = "epicsGet"
                THEN Goto(p, "epics_select", loc[p]) /\ UNCHANGED req
           ELSE \E name \in Names :
                   /\ req' = [req EXCEPT ![p].name = name]
                   /\ IF name = <<>>
                      THEN Respond(p, ErrorJson(400, "Name is required"), loc[p])
                      ELSE Goto(p, "epics_all", loc[p])
    /\ UNCHANGED <<apiToken, now, ticks, requests, store, cookie>>

epics_select(p) ==
    /\ At(p, "epics_select")
    /\ Respond(p, RowsJson(200), [loc[p] EXCEPT !.touched = TRUE])
    /\ UNCHANGED <<apiToken, now, ticks, requests, req, store, cookie>>

\* POST: the read of the existing epics for the max position
epics_all(p) ==
    /\ At(p, "epics_all")
    /\ Goto(p, "epics_insert", [loc[p] EXCEPT !.touched = TRUE])
    /\ UNCHANGED <<apiToken, now, ticks, requests, req, store, cookie>>

epics_insert(p) ==
    /\ At(p, "epics_insert")
    /\ epics < MaxEpics
    /\ epics' = epics + 1
    /\ Respond(p, RowsJson(201), loc[p])
    /\ UNCHANGED <<apiToken, now, ticks, requests, req, passcodes, sessions, nextId, nextToken, cookie>>

(***************************************************************************)
(* Specifications.                                                         *)
(***************************************************************************)
\* no other request is in flight
Alone(p) == \A q \in Procs \ {p} : pc[q] = "idle"

\* browsers' requests to the login and passcode routes interleave at store
\* calls, within one instant of the clock
Next ==
    \E p \in Procs :
        \/ Request(p, BrowserRequests)
        \/ LoginRoute(p)
        \/ createPasscode_select(p)
        \/ createPasscode_insert(p)
        \/ login_select(p)
        \/ login_update(p)
        \/ login_insert(p)
        \/ AdminSession(p)
        \/ listPasscodes(p)
        \/ deletePasscode_admins(p)
        \/ deletePasscode_target(p)
        \/ deletePasscode_delete(p)
        \/ Deliver(p)

Spec == Init /\ [][Next]_vars

\* requests of all kinds run one at a time while the clock advances
NextSerial ==
    \/ Tick
    \/ \E p \in Procs :
        \/ Alone(p) /\ Request(p, Requests)
        \/ Alone(p) /\ LoginRoute(p)
        \/ Alone(p) /\ createPasscode_select(p)
        \/ Alone(p) /\ createPasscode_insert(p)
        \/ Alone(p) /\ login_select(p)
        \/ Alone(p) /\ login_update(p)
        \/ Alone(p) /\ login_insert(p)
        \/ Alone(p) /\ session_has(p)
        \/ Alone(p) /\ session_get(p)
        \/ Alone(p) /\ logout(p)
        \/ Alone(p) /\ AdminSession(p)
        \/ Alone(p) /\ listPasscodes(p)
        \/ Alone(p) /\ deletePasscode_admins(p)
        \/ Alone(p) /\ deletePasscode_target(p)
        \/ Alone(p) /\ deletePasscode_delete(p)
        \/ Alone(p) /\ EpicsAuth(p)
        \/ Alone(p) /\ epics_select(p)
        \/ Alone(p) /\ epics_all(p)
        \/ Alone(p) /\ epics_insert(p)
        \/ Deliver(p)

SpecSerial == Init /\ [][NextSerial]_vars

\* browsers' requests run one at a time and the store may reject the
\* lastUsedAt update of a login
NextFaults ==
    \E p \in Procs :
        \/ Alone(p) /\ Request(p, BrowserRequests)
        \/ Alone(p) /\ LoginRoute(p)
        \/ Alone(p) /\ createPasscode_select(p)
        \/ Alone(p) /\ createPasscode_insert(p)
        \/ Alone(p) /\ login_select(p)
        \/ Alone(p) /\ login_update(p)
        \/ Alone(p) /\ login_update_throws(p)
        \/ Alone(p) /\ login_insert(p)
        \/ Alone(p) /\ AdminSession(p)
        \/ Alone(p) /\ listPasscodes(p)
        \/ Alone(p) /\ deletePasscode_admins(p)
        \/ Alone(p) /\ deletePasscode_target(p)
        \/ Alone(p) /\ deletePasscode_delete(p)
        \/ Deliver(p)

SpecFaults == Init /\ [][NextFaults]_vars

(***************************************************************************)
(* createPasscode() and login() over many codes: an admin creates passcodes *)
(* and clients log in, one request at a time, with six-digit codes over    *)
(* HashDigits and with a few strings that are no six-digit codes.           *)
(***************************************************************************)
HashDigits == {48, 57}              \* '0' and '9'
MaxHashCalls == 2                   \* requests sent in this specification

HashCodes ==
    { <<a, b, c, d, e, f>> : a \in HashDigits, b \in HashDigits, c \in HashDigits,
                             d \in HashDigits, e \in HashDigits, f \in HashDigits }

\* "0000000", "00000", "a", "kanban_0_", and the codes that are no six digits
OtherInputs ==
    { <<48, 48, 48, 48, 48, 48, 48>>, <<48, 48, 48, 48, 48>>, <<97>>,
      StrKanban \o <<48, 95>>, Code12345, Code12a456 }

\* POST /api/admin/passcodes of a logged-in admin, without interruption: the
\* whole of createPasscode(code, name, false); the name is the code itself
createPasscode_call(p) ==
    /\ At(p, "idle")
    /\ requests < MaxHashCalls
    /\ requests' = requests + 1
    /\ \E code \in HashCodes \cup OtherInputs :
         /\ req' = [req EXCEPT ![p] = [NoReq EXCEPT !.route = "adminCreate",
                                                    !.code = code, !.name = code]]
         /\ IF Malformed(code)
            THEN /\ Respond(p, ErrorJson(400, "Passcode must be exactly 6 digits"),
                            [NoLoc EXCEPT !.create = "malformed"])
                 /\ UNCHANGED <<passcodes, nextId>>
            ELSE IF SelectByCode(hashCode(code)) # {}
            THEN /\ Respond(p, ErrorJson(400, "This passcode already exists"),
                            [NoLoc EXCEPT !.create = "exists", !.touched = TRUE])
                 /\ UNCHANGED <<passcodes, nextId>>
            ELSE /\ passcodes' = passcodes \cup {PasscodeRow(nextId, hashCode(code), code, FALSE)}
                 /\ nextId' = nextId + 1
                 /\ Respond(p, SuccessJson, [NoLoc EXCEPT !.create = "success", !.touched = TRUE])
    /\ UNCHANGED <<apiToken, now, ticks, sessions, epics, nextToken, cookie>>

\* POST /api/auth/login once passcodes exist: the body and hasAnyPasscodes()
login_call(p) ==
    /\ At(p, "idle")
    /\ requests < MaxHashCalls
    /\ requests' = requests + 1
    /\ passcodes # {}
    /\ \E code \in HashCodes \cup OtherInputs :
         req' = [req EXCEPT ![p] = [NoReq EXCEPT !.route = "login", !.code = code]]
    /\ Goto(p, "login_select", [NoLoc EXCEPT !.gate = "exempt"])
    /\ UNCHANGED <<apiToken, now, ticks, store, cookie>>

NextHash ==
    \E p \in Procs :
        \/ Alone(p) /\ createPasscode_call(p)
        \/ Alone(p) /\ login_call(p)
        \/ Alone(p) /\ login_select(p)
        \/ Alone(p) /\ login_update(p)
        \/ Alone(p) /\ login_insert(p)
        \/ Deliver(p)

SpecHash == Init /\ [][NextHash]_vars

(***************************************************************************)
(* Properties.                                                             *)
(***************************************************************************)
AdminRoutes == {"adminList", "adminCreate", "adminDelete"}

\* the cookie values a request can carry: none, or a token ever generated
Tokens == 0..MaxSessions

\* the step is one of client p's request
Steps(p) == pc'[p] # pc[p]

\* the request of p is over and its response is body
Answered(p, route, body) ==
    pc[p] = "respond" /\ req[p].route = route /\ resp[p] = body

\* C1: once a passcode has been created, some passcode row has isAdmin = true,
\* in every state of interleaved login, create and delete requests.
C1_LastAdmin == nextId > 1 => \E r \in passcodes : r.isAdmin

\* C2: without concurrent requests, deletePasscode of the only admin passcode
\* answers 'Cannot delete the last admin passcode' and changes neither table;
\* with two or more admins, deleting one of them succeeds and removes exactly
\* that row.
C2_DeleteGuard ==
    [][\A p \in Procs :
         LET target == { r \in passcodes : r.id = req[p].id }
             admins == Cardinality({ r \in passcodes : r.isAdmin })
             ofAdmin == \E r \in target : r.isAdmin
         IN  /\ (pc[p] = "delete_admins" /\ Steps(p)) =>
                   passcodes' = passcodes /\ sessions' = sessions
             /\ (pc[p] = "delete_target" /\ Steps(p) /\ ofAdmin /\ admins = 1) =>
                   /\ pc'[p] = "respond"
                   /\ resp'[p] = ErrorJson(400, "Cannot delete the last admin passcode")
                   /\ passcodes' = passcodes /\ sessions' = sessions
             /\ (pc[p] = "delete_target" /\ Steps(p) /\ ofAdmin /\ admins >= 2) =>
                   /\ pc'[p] = "delete_delete"
                   /\ passcodes' = passcodes /\ sessions' = sessions
             /\ (pc[p] = "delete_delete" /\ Steps(p)) =>
                   /\ ~(ofAdmin /\ admins = 1)
                   /\ pc'[p] = "respond" /\ resp'[p] = SuccessJson
                   /\ passcodes' = passcodes \ target
                   /\ Cardinality(target) <= 1
      ]_vars

\* one of two admin passcodes has been deleted and the other one is left
C2_Witness ==
    \E p \in Procs :
        /\ Answered(p, "adminDelete", SuccessJson)
        /\ loc[p].admins = 2
        /\ \E r \in loc[p].target : r.isAdmin /\ r.id = req[p].id
        /\ \E r \in passcodes : passcodes = {r} /\ r.isAdmin /\ r.id # req[p].id

\* C3: login() inserts exactly one session row when it returns success, and
\* inserts no session row and sets no cookie when it returns failure or
\* throws; a code whose hash matches no passcode yields 'Invalid passcode'
\* with the session table unchanged.
C3_LoginSessions ==
    [][\A p \in Procs :
         LET matches == { r \in passcodes : r.code = hashCode(req[p].code) }
         IN  /\ (pc[p] \in {"login_select", "login_update", "login_insert"} /\ Steps(p)) =>
                   IF loc'[p].login = "success"
                   THEN /\ pc[p] = "login_insert"
                        /\ Cardinality(sessions') = Cardinality(sessions) + 1
                        /\ \E s \in sessions' \ sessions :
                              /\ sessions' = sessions \cup {s}
                              /\ cookie'[p] = s.token
                              /\ \E r \in matches : s.passcodeId = r.id
                   ELSE sessions' = sessions /\ cookie' = cookie
             /\ (pc[p] = "login_select" /\ Steps(p) /\ matches = {}) =>
                   /\ loc'[p].login = "invalid"
                   /\ pc'[p] = "respond"
                   /\ ~loc[p].setup => resp'[p] = ErrorJson(401, "Invalid passcode")
             /\ (pc[p] = "login_select" /\ Steps(p) /\ matches # {}) =>
                   pc'[p] = "login_update"
      ]_vars

\* a wrong code is refused while sessions of earlier logins exist
C3_Witness ==
    \E p \in Procs :
        /\ Answered(p, "login", ErrorJson(401, "Invalid passcode"))
        /\ loc[p].login = "invalid"
        /\ sessions # {}
        /\ cookie[p] = NoToken

\* C4: getSession returns {authenticated: true, isAdmin, name} iff the cookie
\* token is present, a session row with that token exists, its expiresAt is
\* strictly greater than now and its owning passcode exists; isAdmin and name
\* are those of the owning passcode; expiresAt <= now yields null.
C4_GetSession ==
    /\ \A tok \in Tokens :
         LET live == { s \in sessions : s.token = tok /\ s.expiresAt > now }
             owners == { r \in passcodes : \E s \in live : r.id = s.passcodeId }
             result == getSession(tok)
         IN  /\ result # {} <=> (tok # NoToken /\ owners # {})
             /\ Cardinality(result) <= 1
             /\ \A g \in result :
                   /\ g.authenticated
                   /\ \E r \in owners : g.isAdmin = r.isAdmin /\ g.name = r.name
             /\ (\A s \in sessions : s.token = tok => s.expiresAt <= now) => result = {}
    /\ \A p \in Procs :
         (pc[p] = "respond" /\ req[p].route \in AdminRoutes
            /\ resp[p] = ErrorJson(401, "Unauthorized")) =>
            /\ loc[p].session = getSession(cookie[p])
            /\ \A s \in sessions :
                  (s.token = cookie[p] /\ s.expiresAt > now) =>
                     \E r \in passcodes : r.id = s.passcodeId /\ ~r.isAdmin

\* the admin's session expires at this very second and is no session any more
C4_Witness ==
    \E p \in Procs :
        /\ Answered(p, "adminList", ErrorJson(401, "Unauthorized"))
        /\ loc[p].session = {}
        /\ \E s \in sessions :
              /\ s.token = cookie[p]
              /\ s.expiresAt = now
              /\ \E r \in passcodes : r.id = s.passcodeId /\ r.isAdmin

\* C5: validateRequest returns valid iff no static token is configured, or the
\* Authorization header is 'Bearer ' followed by exactly the configured
\* token, or x-api-token equals the configured token, or the session cookie
\* identifies an unexpired session; an invalid result carries a 401.
C5_ValidateRequest ==
    /\ \A h \in AllHeaders : \A tok \in Tokens :
         LET v == validateRequest(h, tok)
             bearer == apiToken # <<>> /\ h.auth = StrBearer \o apiToken
             xtoken == apiToken # <<>> /\ h.xtok = apiToken
             live == tok # NoToken /\ \E s \in sessions : s.token = tok /\ s.expiresAt > now
         IN  /\ v.valid <=> (apiToken = <<>> \/ bearer \/ xtoken \/ live)
             /\ ~v.valid => (v.error.status = 401 /\ "error" \in v.error.keys)
    /\ \A p \in Procs :
         (pc[p] = "respond" /\ loc[p].gate = "denied") =>
            /\ resp[p].status = 401
            /\ apiToken # <<>>
            /\ req[p].headers.auth # StrBearer \o apiToken
            /\ req[p].headers.xtok # apiToken
            /\ ~\E s \in sessions : s.token = cookie[p] /\ s.expiresAt > now

\* a wrong bearer token with the cookie of an unexpired session is let in
C5_Witness ==
    \E p \in Procs :
        /\ Answered(p, "epicsGet", RowsJson(200))
        /\ apiToken = StrT
        /\ req[p].headers.auth = StrBearer \o StrX
        /\ loc[p].gate = "session"
        /\ \E s \in sessions : s.token = cookie[p] /\ s.expiresAt > now

\* C6: with no static token configured, validateRequest authorizes every
\* request to every route that is not exempt, whether or not a passcode
\* exists or the request has a cookie, and does not call getSession.
C6_OpenMode ==
    apiToken = <<>> =>
        /\ \A h \in AllHeaders : \A tok \in Tokens :
              validateRequest(h, tok).valid /\ ~validateRequest(h, tok).consulted
        /\ \A p \in Procs :
              (pc[p] # "idle" /\ PathOf(req[p].route) \notin ExemptPaths) =>
                 /\ loc[p].gate = "token"
                 /\ ~loc[p].consulted
                 /\ resp[p] \notin {TokenError, RequestError}

\* an epic is created with no credentials at all before any passcode exists
C6_Witness ==
    \E p \in Procs :
        /\ Answered(p, "epicsPost", RowsJson(201))
        /\ apiToken = <<>>
        /\ passcodes = {}
        /\ cookie[p] = NoToken
        /\ req[p].headers = NoHeaders
        /\ epics = 1

\* the cookie of p identifies an unexpired session of an admin passcode
AdminCookie(p) ==
    /\ cookie[p] # NoToken
    /\ \E s \in sessions :
          /\ s.token = cookie[p]
          /\ s.expiresAt > now
          /\ \E r \in passcodes : r.id = s.passcodeId /\ r.isAdmin

\* C7: the handlers of /api/admin/passcodes read or change the credential
\* store only for a request whose cookie identifies an unexpired session of
\* an admin passcode; a request let in by the static token or by open mode
\* alone gets 401 'Unauthorized' and the store is unchanged.
C7_AdminOnly ==
    [][\A p \in Procs :
         /\ (pc[p] = "admin_session" /\ Steps(p) /\ ~AdminCookie(p)) =>
               /\ pc'[p] = "respond"
               /\ resp'[p] = ErrorJson(401, "Unauthorized")
               /\ ~loc'[p].touched
               /\ UNCHANGED store
         /\ (pc[p] = "admin_session" /\ Steps(p) /\ AdminCookie(p)) =>
               /\ resp'[p].status # 401
               /\ \E g \in loc'[p].session : g.isAdmin
         /\ (pc[p] # "idle" /\ req[p].route \in AdminRoutes /\ Steps(p)
               /\ (loc'[p].touched \/ passcodes' # passcodes \/ sessions' # sessions)) =>
               /\ pc[p] \notin {"admin_session", "respond"}
               /\ \E g \in loc[p].session : g.isAdmin
      ]_vars

\* the configured token alone does not open the passcode routes
C7_Witness ==
    \E p \in Procs :
        /\ pc[p] = "respond" /\ req[p].route \in AdminRoutes
        /\ resp[p] = ErrorJson(401, "Unauthorized")
        /\ apiToken = StrT
        /\ req[p].headers.auth = StrBearer \o StrT
        /\ loc[p].gate = "token"
        /\ passcodes # {}

\* C8: on every route that is not exempt the handler runs only after
\* validateRequest returned valid for the request; when it returns invalid
\* the response is a 401 with an error body and no data is read or written.
C8_GateFirst ==
    [][\A p \in Procs :
         /\ (pc[p] = "idle" /\ Steps(p) /\ PathOf(req'[p].route) \notin ExemptPaths) =>
               IF validateRequest(req'[p].headers, cookie[p]).valid
               THEN pc'[p] = Entry(req'[p].route) /\ ~loc'[p].touched /\ UNCHANGED store
               ELSE /\ pc'[p] = "respond"
                    /\ resp'[p].status = 401
                    /\ resp'[p].keys = {"error"} /\ resp'[p].error # ""
                    /\ ~loc'[p].touched
                    /\ UNCHANGED store
         /\ (pc[p] = "epics_auth" /\ Steps(p)
               /\ ~validateRequest(req[p].headers, cookie[p]).valid) =>
               /\ pc'[p] = "respond"
               /\ resp'[p].status = 401
               /\ resp'[p].keys = {"error"} /\ resp'[p].error # ""
               /\ ~loc'[p].touched
               /\ UNCHANGED store
         /\ (pc[p] \notin {"idle", "respond"} /\ Steps(p)
               /\ PathOf(req[p].route) \notin ExemptPaths) =>
               loc[p].gate \in {"token", "session"}
         /\ (pc[p] # "idle" /\ Steps(p) /\ PathOf(req[p].route) = "/api/epics"
               /\ (loc'[p].touched \/ epics' # epics)) =>
               pc[p] \notin {"epics_auth", "respond"}
      ]_vars

\* a request with neither token nor session is turned away at the gate
C8_Witness ==
    \E p \in Procs :
        /\ Answered(p, "epicsPost", RequestError)
        /\ loc[p].gate = "denied"
        /\ ~loc[p].touched
        /\ apiToken = StrT
        /\ passcodes # {}

\* C9: with no passcode in the store, a login request with a 6-digit code
\* creates exactly one passcode, named 'Admin', with isAdmin = true and code
\* hashCode(code), creates a session for it, and answers
\* {success: true, isAdmin: true}.
C9_FirstRunSetup ==
    [][\A p \in Procs :
         /\ (pc[p] = "login_route" /\ Steps(p) /\ passcodes = {}
               /\ ~Malformed(req'[p].code)) =>
               loc'[p].setup /\ pc'[p] = "create_select"
         /\ (pc[p] = "create_select" /\ Steps(p) /\ loc[p].setup) =>
               pc'[p] = "create_insert"
         /\ (loc[p].setup /\ Steps(p) /\ pc'[p] = "respond") =>
               /\ pc[p] = "login_insert"
               /\ resp'[p].status = 200 /\ resp'[p].success /\ resp'[p].isAdmin
               /\ {"success", "isAdmin"} \subseteq resp'[p].keys
               /\ \E r \in passcodes' :
                     /\ passcodes' = {r}
                     /\ r.name = StrAdmin
                     /\ r.isAdmin
                     /\ r.code = hashCode(req[p].code)
                     /\ \E s \in sessions' :
                           /\ sessions' = {s}
                           /\ s.passcodeId = r.id
                           /\ s.expiresAt = now + SESSION_DURATION
                           /\ cookie'[p] = s.token
      ]_vars

\* the first login, with 000000, has set up the admin passcode 24b2262d
C9_Witness ==
    \E p \in Procs :
        /\ Answered(p, "login", SetupJson)
        /\ loc[p].setup
        /\ req[p].code = Code000000
        /\ \E r \in passcodes :
              /\ passcodes = {r}
              /\ r.code = <<50, 52, 98, 50, 50, 54, 50, 100>>
              /\ r.isAdmin
        /\ \E s \in sessions : s.token = cookie[p]

\* C10: the login route inserts a passcode only while the passcode table is
\* empty, also when login requests interleave at store calls.
C10_SetupOnlyWhenEmpty ==
    [][\A p \in Procs :
         (req[p].route = "login" /\ pc[p] = "create_insert" /\ Steps(p)) => passcodes = {}]_vars

\* C11: no two passcode rows hold the same stored code hash, also under
\* interleaved createPasscode calls and interleaved first-run setup requests.
C11_UniqueHash ==
    \A r1 \in passcodes : \A r2 \in passcodes : r1.code = r2.code => r1.id = r2.id

\* C12: every session row references an existing passcode, also when a login
\* interleaves with deletePasscode of the same passcode; getSession accepts no
\* token whose passcode is gone.
C12_SessionsOwned ==
    /\ \A s \in sessions : \E r \in passcodes : r.id = s.passcodeId
    /\ \A tok \in Tokens :
          getSession(tok) # {} =>
             \E s \in sessions : s.token = tok /\ \E r \in passcodes : r.id = s.passcodeId
    /\ \A p \in Procs :
          (pc[p] = "respond" /\ loc[p].login = "success") =>
             \E s \in sessions : s.token = cookie[p] /\ \E r \in passcodes : r.id = s.passcodeId

\* a login lost the race against the delete of its passcode: its insert threw,
\* and the session the client had went with the passcode
C12_Witness ==
    \E p \in Procs :
        /\ Answered(p, "login", ErrorJson(500, "Login failed"))
        /\ loc[p].login = "threw"
        /\ \A passcode \in loc[p].passcode : \A r \in passcodes : r.id # passcode.id
        /\ cookie[p] # NoToken
        /\ \A s \in sessions : s.token # cookie[p]
        /\ getSession(cookie[p]) = {}

\* tok has been generated and is the token of no session row
Invalidated(tok) ==
    tok # NoToken /\ tok < nextToken /\ \A s \in sessions : s.token # tok

\* C13: logout deletes the session row with the cookie's token (if any) and
\* clears the cookie; logout with a token of no session row, or with no cookie,
\* completes and leaves the stores unchanged; a token without a session row
\* is null to getSession and never gets a session row again.
C13_LogoutIdempotent ==
    [][/\ \A p \in Procs :
            (pc[p] = "logout" /\ Steps(p)) =>
               /\ pc'[p] = "respond"
               /\ resp'[p].status = 200 /\ "error" \notin resp'[p].keys
               /\ cookie'[p] = NoToken
               /\ passcodes' = passcodes
               /\ sessions' = { s \in sessions : cookie[p] = NoToken \/ s.token # cookie[p] }
               /\ Cardinality(sessions') >= Cardinality(sessions) - 1
               /\ (cookie[p] = NoToken \/ Invalidated(cookie[p])) => sessions' = sessions
               /\ cookie[p] # NoToken => getSession(cookie[p])' = {}
       /\ \A tok \in Tokens :
            Invalidated(tok) =>
               /\ getSession(tok) = {}
               /\ Invalidated(tok)'
               /\ getSession(tok)' = {}
      ]_vars

\* the client logs out with the token of a session that went with its
\* passcode: token 1 is the only one ever generated and passcode 1 is gone
C13_Witness ==
    \E p \in Procs :
        /\ pc[p] = "respond" /\ req[p].route = "logout"
        /\ loc[p].gate # "denied"
        /\ loc[p].token = 1
        /\ nextToken = 2
        /\ cookie[p] = NoToken
        /\ \E r \in passcodes : passcodes = {r} /\ r.id = 2
        /\ sessions = {}

\* C14: a logout request is never answered with an error: whatever the
\* client's session and the token configuration, it reaches logout() and is
\* answered {success: true}.
C14_LogoutNeverErrors ==
    \A p \in Procs :
        (pc[p] = "respond" /\ req[p].route = "logout") =>
            /\ resp[p] = LogoutJson
            /\ loc[p].gate # "denied"

\* C15: after createPasscode(c, name, a) returned success for a 6-digit code
\* c, and while the row it inserted is not deleted, login(c) returns
\* {success: true, isAdmin: a} and the session it creates is owned by a
\* passcode whose stored hash is hashCode(c).  Every row of the table is the
\* row of a createPasscode call that returned success.
C15_RoundTrip ==
    [][\A p \in Procs :
         LET created == { r \in passcodes : r.code = hashCode(req[p].code) }
         IN  /\ (pc[p] = "login_select" /\ Steps(p) /\ created # {}) =>
                   pc'[p] = "login_update"
             /\ (pc[p] = "login_insert" /\ Steps(p) /\ created # {}) =>
                   /\ loc'[p].login = "success"
                   /\ ~loc[p].setup => \A r \in created : resp'[p] = LoginJson(r.isAdmin)
                   /\ \E s \in sessions' \ sessions :
                         \E r \in passcodes : r.id = s.passcodeId /\ r.code = hashCode(req[p].code)
      ]_vars

\* C16: a session created by login at time t has expiresAt = t + 30 days, no
\* step changes the expiresAt of an existing session, the clock does not go
\* back, and a token getSession has rejected is rejected ever after.
C16_ValidityWindow ==
    [][/\ now' >= now
       /\ \A s \in sessions' :
            \/ s \in sessions
            \/ /\ s.expiresAt = now + 2592000
               /\ \A t \in sessions : t.token # s.token
               /\ \E p \in Procs : pc[p] = "login_insert" /\ Steps(p)
       /\ \A tok \in Tokens :
            (tok # NoToken /\ tok < nextToken /\ getSession(tok) = {}) =>
               getSession(tok)' = {}
       /\ \A s \in sessions : s.expiresAt <= now => getSession(s.token)' = {}
      ]_vars

\* the session made at time 0 is a second past its 30 days and is refused
C16_Witness ==
    \E p \in Procs :
        /\ Answered(p, "epicsGet", RequestError)
        /\ \E s \in sessions :
              /\ s.token = cookie[p]
              /\ s.expiresAt = 2592000
              /\ now = 2592001

\* C17: the middleware passes requests to the login, first-run setup and
\* session-status routes without calling validateRequest, so a client with no
\* token and no cookie reaches them also when a static token is configured;
\* every other /api/ path is gated.
C17_ExemptRoutes ==
    \A p \in Procs :
        pc[p] # "idle" =>
           IF req[p].route \in {"login", "session"}
           THEN loc[p].gate = "exempt" /\ ~loc[p].consulted
           ELSE loc[p].gate # "exempt"

\* C18: the session-status route answers {authenticated: false,
\* needsSetup: true} exactly when no passcode row exists when it checks;
\* otherwise {authenticated: false} when getSession returns null and the
\* getSession result when not.  It never answers authenticated: true while
\* no passcode exists and never writes to a store.
C18_SessionStatus ==
    [][\A p \in Procs :
         LET owners == { r \in passcodes :
                           \E s \in sessions : /\ s.token = cookie[p]
                                               /\ cookie[p] # NoToken
                                               /\ s.expiresAt > now
                                               /\ s.passcodeId = r.id }
         IN  /\ (pc[p] = "session_has" /\ Steps(p)) =>
                   IF passcodes = {}
                   THEN pc'[p] = "respond" /\ resp'[p] = NeedsSetupJson
                   ELSE pc'[p] = "session_get"
             /\ (pc[p] = "session_get" /\ Steps(p)) =>
                   /\ pc'[p] = "respond"
                   /\ "needsSetup" \notin resp'[p].keys
                   /\ resp'[p].status = 200
                   /\ IF owners = {}
                      THEN resp'[p].keys = {"authenticated"} /\ ~resp'[p].authenticated
                      ELSE /\ resp'[p].authenticated
                           /\ \E r \in owners : /\ resp'[p].isAdmin = r.isAdmin
                                                /\ resp'[p].name = r.name
             /\ (pc[p] \in {"session_has", "session_get"} /\ Steps(p)) =>
                   /\ UNCHANGED <<store, cookie>>
                   /\ resp'[p].authenticated => passcodes' # {}
      ]_vars

\* a logged-in admin asks for the session status
C18_Witness ==
    \E p \in Procs :
        /\ pc[p] = "respond" /\ req[p].route = "session"
        /\ resp[p].authenticated /\ resp[p].isAdmin /\ resp[p].name = StrAdmin
        /\ resp[p].keys = {"authenticated", "isAdmin", "name"}
        /\ \E s \in sessions : s.token = cookie[p]

\* C19: createPasscode with a code whose hash is the stored hash of a passcode
\* returns 'This passcode already exists' (400 at the admin route) and
\* inserts no row; the passcode table is the same before and after.
C19_Duplicate ==
    [][\A p \in Procs :
         LET duplicate == \E r \in passcodes : r.code = hashCode(req[p].code)
         IN  /\ (pc[p] = "create_select" /\ Steps(p) /\ duplicate) =>
                   /\ loc'[p].create = "exists"
                   /\ pc'[p] # "create_insert"
                   /\ passcodes' = passcodes /\ nextId' = nextId
                   /\ req[p].route = "adminCreate" =>
                         /\ pc'[p] = "respond"
                         /\ resp'[p] = ErrorJson(400, "This passcode already exists")
             /\ (pc[p] = "create_select" /\ Steps(p) /\ ~duplicate) =>
                   pc'[p] = "create_insert" /\ passcodes' = passcodes
      ]_vars

\* the admin tries to create the passcode they logged in with
C19_Witness ==
    \E p \in Procs :
        /\ Answered(p, "adminCreate", ErrorJson(400, "This passcode already exists"))
        /\ loc[p].create = "exists"
        /\ \E r \in passcodes : passcodes = {r} /\ r.code = hashCode(req[p].code)

\* exactly six ASCII digits
SixDigits(code) == Len(code) = 6 /\ \A i \in 1..Len(code) : code[i] \in 48..57

\* C20: createPasscode with a code that is not exactly six ASCII digits returns
\* 'Passcode must be exactly 6 digits' without reading or writing the store;
\* the admin create route answers 400 when code or name is missing; on the
\* setup path a code that is not six digits is answered 400 and no passcode
\* and no session is created.
C20_Malformed ==
    [][\A p \in Procs :
         /\ (pc[p] = "admin_session" /\ Steps(p) /\ req[p].route = "adminCreate"
               /\ AdminCookie(p)) =>
               IF req'[p].code = <<>> \/ req'[p].name = <<>>
               THEN /\ pc'[p] = "respond"
                    /\ resp'[p] = ErrorJson(400, "Code and name are required")
                    /\ ~loc'[p].touched /\ UNCHANGED store
               ELSE IF ~SixDigits(req'[p].code)
               THEN /\ pc'[p] = "respond"
                    /\ resp'[p] = ErrorJson(400, "Passcode must be exactly 6 digits")
                    /\ ~loc'[p].touched /\ UNCHANGED store
               ELSE pc'[p] = "create_select"
         /\ (pc[p] = "login_route" /\ Steps(p) /\ passcodes = {}
               /\ ~SixDigits(req'[p].code)) =>
               /\ pc'[p] = "respond"
               /\ resp'[p].status = 400 /\ resp'[p].keys = {"error"}
               /\ req'[p].code # <<>> =>
                     resp'[p] = ErrorJson(400, "Passcode must be exactly 6 digits")
               /\ UNCHANGED <<store, cookie>>
         /\ (pc[p] \in {"create_select", "create_insert"} /\ Steps(p)) =>
               SixDigits(req[p].code)
      ]_vars

\* the first login comes with 12a456: no passcode, no session
C20_Witness ==
    \E p \in Procs :
        /\ Answered(p, "login", ErrorJson(400, "Passcode must be exactly 6 digits"))
        /\ loc[p].setup
        /\ req[p].code = Code12a456
        /\ passcodes = {} /\ sessions = {} /\ nextId = 1
        /\ cookie[p] = NoToken

\* C21: a failure of the lastUsedAt update does not block the login: login()
\* goes on to insert the session and set the cookie, its answer is success
\* and the failure is not surfaced.
C21_UpdateFailureSwallowed ==
    [][\A p \in Procs :
         (pc[p] = "login_update" /\ Steps(p)) =>
            /\ pc'[p] = "login_insert"
            /\ loc'[p].login # "threw"
            /\ resp'[p] = NoResp
      ]_vars

\* C22 as stated: two concurrent deletePasscode calls that target the sole
\* admin passcode both read an admin count of 1 and both pass the last-admin
\* guard: a call that has read the count 1 and finds its target to be an
\* admin passcode goes on to the delete.
C22_SoleAdminRace ==
    [][\A p \in Procs :
         (/\ pc[p] = "delete_target" /\ Steps(p)
          /\ loc[p].admins = 1
          /\ \E r \in passcodes : r.id = req[p].id /\ r.isAdmin) =>
            pc'[p] = "delete_delete"
      ]_vars

\* C22, amended: a deletePasscode call that has read an admin count of 1 and
\* targets an admin passcode is refused and deletes nothing, however the
\* calls interleave; a call that issues the delete of an admin passcode has
\* read a count of 2 or more.  Two concurrent calls that target the two
\* admin passcodes can both read 2, both pass the guard and both delete.
C22_GuardRace ==
    [][\A p \in Procs :
         /\ (/\ pc[p] = "delete_target" /\ Steps(p)
             /\ loc[p].admins <= 1
             /\ \E r \in passcodes : r.id = req[p].id /\ r.isAdmin) =>
               /\ pc'[p] = "respond"
               /\ resp'[p] = ErrorJson(400, "Cannot delete the last admin passcode")
               /\ UNCHANGED store
         /\ (/\ pc[p] = "delete_target" /\ Steps(p)
             /\ loc[p].admins >= 2) =>
               pc'[p] = "delete_delete" /\ UNCHANGED store
         /\ (/\ pc[p] = "delete_delete" /\ Steps(p)
             /\ \E r \in passcodes : r.id = req[p].id /\ r.isAdmin) =>
               /\ loc[p].admins >= 2
               /\ \E r \in loc[p].target : r.id = req[p].id /\ r.isAdmin
               /\ passcodes' = { r \in passcodes : r.id # req[p].id }
      ]_vars

\* both calls have read two admins and passed the guard; one has deleted its
\* admin passcode and the other is about to delete the last one
C22_Witness ==
    \E p \in Procs : \E q \in Procs \ {p} :
        /\ Answered(p, "adminDelete", SuccessJson)
        /\ pc[q] = "delete_delete"
        /\ loc[p].admins = 2 /\ loc[q].admins = 2
        /\ req[p].id # req[q].id
        /\ \E r \in loc[p].target : r.isAdmin
        /\ \E r \in passcodes : passcodes = {r} /\ r.isAdmin /\ r.id = req[q].id

\* C23: two login calls with the same valid code that interleave at store
\* calls both return success, each with a session row and token of its own;
\* both tokens are accepted by getSession while the passcode exists, and a
\* login removes or changes no session row.
C23_ConcurrentLogins ==
    [][/\ \A p \in Procs :
            (pc[p] = "login_insert" /\ Steps(p)
               /\ \E r \in passcodes : r \in loc[p].passcode
                                         \/ \E o \in loc[p].passcode : o.id = r.id) =>
               /\ loc'[p].login = "success"
               /\ sessions \subseteq sessions'
               /\ \E s \in sessions' \ sessions :
                     /\ sessions' = sessions \cup {s}
                     /\ cookie'[p] = s.token
                     /\ \A t \in sessions : t.token # s.token
                     /\ \A q \in Procs \ {p} : cookie'[q] # s.token
                     /\ getSession(s.token)' # {}
               /\ \A t \in sessions : getSession(t.token) # {} => getSession(t.token)' # {}
       /\ \A p \in Procs :
            (pc[p] \in {"login_route", "login_select", "login_update", "login_insert"}
               /\ Steps(p)) =>
               \A t \in sessions : t \in sessions'
      ]_vars

\* both clients hold a session of the one passcode; q's login read the
\* passcode before p's login updated it and inserted its session after p's
C23_Witness ==
    \E p \in Procs : \E q \in Procs \ {p} :
        /\ pc[q] = "respond" /\ req[q].route = "login"
        /\ loc[q].login = "success" /\ resp[q].status = 200
        /\ \E o \in loc[q].passcode : o.lastUsedAt = Never
        /\ cookie[p] = 1 /\ cookie[q] = 2
        /\ getSession(cookie[p]) # {} /\ getSession(cookie[q]) # {}
        /\ \E r \in passcodes :
              /\ passcodes = {r}
              /\ r.code = hashCode(req[q].code)
              /\ \A s \in sessions : s.passcodeId = r.id
        /\ Cardinality(sessions) = 2

\* C24: the code hash, name and isAdmin of a passcode row never change; only
\* lastUsedAt does, and only in the update of a login whose code has the
\* row's hash; a row disappears only in the delete of deletePasscode with
\* its id.
C24_PasscodeFrame ==
    [][/\ \A r \in passcodes :
            \/ /\ \E r2 \in passcodes' :
                     /\ r2.id = r.id
                     /\ r2.code = r.code /\ r2.name = r.name /\ r2.isAdmin = r.isAdmin
                     /\ r2.lastUsedAt # r.lastUsedAt =>
                           \E p \in Procs :
                              /\ pc[p] = "login_update" /\ Steps(p)
                              /\ req[p].route = "login"
                              /\ hashCode(req[p].code) = r.code
                              /\ r2.lastUsedAt = now
               /\ \A r2 \in passcodes' : \A r3 \in passcodes' :
                     r2.id = r3.id => r2 = r3
            \/ /\ \A r2 \in passcodes' : r2.id # r.id
               /\ \E p \in Procs :
                     /\ pc[p] = "delete_delete" /\ Steps(p)
                     /\ req[p].route = "adminDelete"
                     /\ req[p].id = r.id
       /\ \A r2 \in passcodes' :
            (\A r \in passcodes : r.id # r2.id) =>
               \E p \in Procs : pc[p] = "create_insert" /\ Steps(p) /\ r2.lastUsedAt = Never
      ]_vars

\* the guest has logged in for the first time: the guest's row, read with no
\* lastUsedAt, has one now and is otherwise the same; so has the admin's row
C24_Witness ==
    \E p \in Procs :
        /\ Answered(p, "login", LoginJson(FALSE))
        /\ \E r \in passcodes :
              /\ r.code = hashCode(req[p].code)
              /\ r.name = StrGuest /\ ~r.isAdmin
              /\ r.lastUsedAt = now
              /\ loc[p].passcode = {[r EXCEPT !.lastUsedAt = Never]}
        /\ \E r \in passcodes : r.code # hashCode(req[p].code) /\ r.lastUsedAt = now

\* C25: authorization failures do not tell which check failed: a request to
\* a passcode-management route that is refused gets the same 401
\* {error: 'Unauthorized'} whether it has no valid session or the session of
\* a passcode that is no admin, and validateRequest returns the same 401
\* body for every request it refuses.
C25_NoLeak ==
    /\ \A h \in AllHeaders : \A tok \in Tokens :
          ~validateRequest(h, tok).valid => validateRequest(h, tok).error = RequestError
    /\ \A p \in Procs :
          (pc[p] = "respond" /\ req[p].route \in AdminRoutes /\ resp[p].status = 401) =>
             resp[p] = ErrorJson(401, "Unauthorized")

\* eight characters from 0-9a-f
IsHex8(digest) ==
    /\ Len(digest) = 8
    /\ \A i \in 1..Len(digest) : digest[i] \in (48..57) \cup (97..102)

CheckerHeaders ==
    [auth : HeaderValues \cup {StrBearer \o StrT \o <<32>> \o StrX}, xtok : HeaderValues]

\* C27: with API_TOKEN and API_AUTH_TOKEN set to the same value (or both
\* unset), verifyApiToken returns true exactly when validateApiToken is
\* valid, for every combination of Authorization and x-api-token values, and
\* verifyApiToken accepts only the Authorization header that is 'Bearer '
\* followed by the configured token.
C27_CheckersAgree ==
    \A h \in CheckerHeaders :
        /\ verifyApiToken(h) <=> validateApiToken(h).valid
        /\ (apiToken # <<>> /\ verifyApiToken(h)) => h.auth = StrBearer \o apiToken

\* C28: whenever the login route answers {success: true, isAdmin: true}, the
\* request has created a session row and set the cookie to its token, and
\* the passcode that owns the session has isAdmin = true; also on the
\* first-run setup path and under every interleaving.
C28_AdminAnswer ==
    \A p \in Procs :
        (/\ pc[p] = "respond" /\ req[p].route = "login"
         /\ resp[p].status = 200 /\ resp[p].success /\ resp[p].isAdmin) =>
            /\ loc[p].login = "success"
            /\ \E s \in sessions :
                  /\ s.token = cookie[p]
                  /\ s.token = nextToken - 1
                  /\ \E r \in passcodes : r.id = s.passcodeId /\ r.isAdmin

\* C29: logout removes only the session whose token is the caller's cookie
\* token: every other session row, also of the same passcode, and every
\* passcode row are unchanged, and the other sessions are accepted by
\* getSession as before.
C29_LogoutFrame ==
    [][\A p \in Procs :
         (pc[p] = "logout" /\ Steps(p)) =>
            /\ passcodes' = passcodes
            /\ sessions' \subseteq sessions
            /\ \A s \in sessions : s.token # cookie[p] => s \in sessions'
            /\ \A s \in sessions \ sessions' : s.token = cookie[p] /\ cookie[p] # NoToken
            /\ \A tok \in Tokens : tok # cookie[p] => getSession(tok)' = getSession(tok)
            /\ \A q \in Procs \ {p} : cookie'[q] = cookie[q]
      ]_vars

\* one of two sessions of the same passcode has logged out; the other one
\* is still accepted
C29_Witness ==
    \E p \in Procs : \E q \in Procs \ {p} :
        /\ pc[p] = "respond" /\ req[p].route = "logout"
        /\ loc[p].gate # "denied"
        /\ loc[p].token # NoToken /\ loc[p].token # cookie[q]
        /\ cookie[p] = NoToken
        /\ nextToken = 3
        /\ \E s \in sessions : sessions = {s} /\ s.token = cookie[q]
        /\ \E r \in passcodes : passcodes = {r}
        /\ getSession(cookie[q]) # {}
        /\ getSession(loc[p].token) = {}

\* C30: deletePasscode with an id that matches no passcode row returns
\* {success: true} (200 at the route) and leaves the passcode and session
\* tables unchanged, whatever the number of admin passcodes.
C30_DeleteUnknown ==
    [][\A p \in Procs :
         LET unknown == \A r \in passcodes : r.id # req[p].id
         IN  /\ (pc[p] = "delete_target" /\ Steps(p) /\ unknown) =>
                   /\ pc'[p] = "delete_delete"
                   /\ loc'[p].target = {}
                   /\ UNCHANGED store
             /\ (pc[p] = "delete_delete" /\ Steps(p) /\ unknown) =>
                   /\ pc'[p] = "respond"
                   /\ resp'[p] = SuccessJson
                   /\ passcodes' = passcodes /\ sessions' = sessions
      ]_vars

\* the only admin deletes an id that names no row
C30_Witness ==
    \E p \in Procs :
        /\ Answered(p, "adminDelete", SuccessJson)
        /\ req[p].id = UnknownId
        /\ loc[p].target = {}
        /\ loc[p].admins = 1
        /\ \E r \in passcodes : passcodes = {r} /\ r.isAdmin
        /\ \E s \in sessions : sessions = {s} /\ s.token = cookie[p]

====
